---- MODULE Spec2Model ----
(***************************************************************************)
(* Reminder scheduler of the task manager: the reminder store              *)
(* (reminderService), the task store as far as reminders read it           *)
(* (taskService), the process-wide job table and its node-schedule timers  *)
(* (reminderManager), and the IPC handlers that drive them.                *)
(*                                                                         *)
(* Every handler runs to completion on the single event loop:              *)
(* triggerReminder is declared async but contains no await, so a delivery  *)
(* is one atomic step, and so is every IPC handler, timer callback and     *)
(* sweep tick.                                                             *)
(***************************************************************************)
EXTENDS Integers, Sequences, FiniteSets, Bags, TLC

\* ---------------------------------------------------------------- bounds
\* Instants are 0..MaxTime; a calendar day is DayLen instants long.
MaxTime == 2
DayLen == 2
\* Snooze durations offered to snoozeReminder are 1..MaxSnooze.
MaxSnooze == 1
\* uuid pools: tasks 1..NumTasks, reminders 1..NumReminders.
NumTasks == 1
NumReminders == 2
\* At most NumTimers node-schedule jobs are alive at once.
NumTimers == 2

Times == 0..MaxTime
TaskIds == 1..NumTasks
ReminderIds == 1..NumReminders

\* SQL NULL in the snoozed_until column.
Null == -1

VARIABLES
  now,       \* the wall clock (new Date(), Date.now(), datetime('now'))
  tasks,     \* tasks table: id -> "absent" | "open" | "done" | "deleted"
  rem,       \* reminders table: id -> row
  jobs,      \* scheduledJobs: reminder id -> the Job stored for it, if any
  orphans,   \* bag of the live node-schedule jobs that scheduledJobs no longer holds
  lastOp,    \* the operation that produced this state and the id it worked on
  shown,     \* the reminder ids that operation showed a notification for
  race,      \* observation of the timer/sweep race, per reminder
  calc,      \* a call of the recurrence calculator: its arguments and its result
  taskRows,  \* tasks table as the completion workflow reads it: id -> row
  taskTags,  \* task_tags table: set of <<task id, tag id>>
  asked,     \* the recurrence configuration each task was created with
  ret        \* what the last call of completeRecurringTask returned

vars == <<now, tasks, rem, jobs, orphans, lastOp, shown, race, calc, taskRows, taskTags, asked, ret>>

\* ------------------------------------------------------------ task store
\* taskService.getById: null when there is no row.
TaskMissing(t) == tasks[t] \in {"absent", "deleted"}

TaskCompleted(t) == tasks[t] = "done"

\* -------------------------------------------------------- reminder store
NoRow(st) == [st |-> st, taskId |-> 0, reminderTime |-> 0, triggered |-> FALSE, snoozedUntil |-> Null]

NewRow(t, rt) == [st |-> "row", taskId |-> t, reminderTime |-> rt, triggered |-> FALSE, snoozedUntil |-> Null]

Exists(rm, r) == rm[r].st = "row"

\* What is left of a deleted row: nothing but the memory of the task it
\* belonged to (task_id is never updated).
Gone(row) == [NoRow("deleted") EXCEPT !.taskId = row.taskId]

\* uuidv4(): an id that was never used; the smallest one of the pool.
FreshReminder(rm) == CHOOSE r \in ReminderIds : rm[r].st = "absent" /\ \A q \in ReminderIds : rm[q].st = "absent" => r <= q

FreshTask == CHOOSE t \in TaskIds : tasks[t] = "absent" /\ \A q \in TaskIds : tasks[q] = "absent" => t <= q

\* reminderService.update: only the fields present in data are written;
\* an UPDATE of a missing id changes no row.
updateRow(row, data) ==
  [row EXCEPT !.reminderTime = IF "reminderTime" \in DOMAIN data THEN data.reminderTime ELSE @,
              !.triggered = IF "triggered" \in DOMAIN data THEN data.triggered ELSE @,
              !.snoozedUntil = IF "snoozedUntil" \in DOMAIN data THEN data.snoozedUntil ELSE @]

update(rm, r, data) == IF Exists(rm, r) THEN [rm EXCEPT ![r] = updateRow(@, data)] ELSE rm

markTriggered(rm, r) == update(rm, r, [triggered |-> TRUE])

\* reminderService.snooze: snoozed_until = now + duration, triggered = 0;
\* reminder_time is not among the updated columns.
snooze(rm, r, duration) == update(rm, r, [snoozedUntil |-> now + duration, triggered |-> FALSE])

Day(t) == t \div DayLen

\* snoozed_until <= datetime('now') in getPending compares the stored ISO
\* text 'YYYY-MM-DDTHH:MM:SS.sssZ' with 'YYYY-MM-DD HH:MM:SS' as text: equal
\* dates are decided by 'T' > ' ', so it holds exactly when the stored date
\* is an earlier day.
IsoLeqSqliteNow(s) == Day(s) < Day(now)

getPending(rm) ==
  {r \in ReminderIds : /\ Exists(rm, r)
                       /\ ~rm[r].triggered
                       /\ (rm[r].snoozedUntil = Null \/ IsoLeqSqliteNow(rm[r].snoozedUntil))}

\* getDue that leaves snoozed reminders out.
getDue_UnsnoozedOnly(rm) ==
  {r \in ReminderIds : /\ Exists(rm, r)
                       /\ ~rm[r].triggered
                       /\ rm[r].reminderTime <= now
                       /\ rm[r].snoozedUntil = Null}

\* getDue binds new Date().toISOString() to both parameters: ISO text against ISO text.
getDue(rm) ==
  {r \in ReminderIds : /\ Exists(rm, r)
                       /\ ~rm[r].triggered
                       /\ rm[r].reminderTime <= now
                       /\ (rm[r].snoozedUntil = Null \/ rm[r].snoozedUntil <= now)}

\* ORDER BY reminder_time ASC (ties in id order)
RECURSIVE OrderByTime(_, _)
OrderByTime(rm, ids) ==
  IF ids = {} THEN <<>>
  ELSE LET m == CHOOSE x \in ids : \A y \in ids :
                  \/ rm[x].reminderTime < rm[y].reminderTime
                  \/ (rm[x].reminderTime = rm[y].reminderTime /\ x <= y)
       IN <<m>> \o OrderByTime(rm, ids \ {m})

\* ------------------------------------------------------ reminder manager
\* A Job made by schedule.scheduleJob(reminderDate, () => triggerReminder(reminder)):
\* its date and the reminder object its callback captured (id, taskId). It is
\* live until it fires or is cancelled.
Job(r, t, rt) == [rid |-> r, tid |-> t, fireAt |-> rt]

\* scheduledJobs.get(id): undefined, a live job, or a job that was cancelled
\* or has fired.
NoJob == [st |-> "none", tid |-> 0, fireAt |-> 0]

LiveJob(t, rt) == [st |-> "live", tid |-> t, fireAt |-> rt]

DeadJob == [st |-> "dead", tid |-> 0, fireAt |-> 0]

\* The part of the state a handler of the reminder manager works on.
Cur == [rem |-> rem, jobs |-> jobs, orphans |-> orphans, shown |-> {}, full |-> FALSE]

Stored(S) == {r \in ReminderIds : S.jobs[r].st = "live"}

\* Number of live jobs in all, and of one reminder id.
TotalLive(S) == Cardinality(Stored(S)) + BagCardinality(S.orphans)

RECURSIVE Copies(_, _)
Copies(B, js) ==
  IF js = {} THEN 0
  ELSE LET j == CHOOSE x \in js : TRUE IN CopiesIn(j, B) + Copies(B, js \ {j})

LiveCount(S, r) ==
  (IF r \in Stored(S) THEN 1 ELSE 0) + Copies(S.orphans, {j \in BagToSet(S.orphans) : j.rid = r})

\* Notification.isSupported() on the desktop platforms the app is built for.
NotificationSupported == TRUE

\* scheduledJobs.delete(id): the entry goes, the job it held is not cancelled.
mapDelete(S, r) ==
  [S EXCEPT !.jobs = [@ EXCEPT ![r] = NoJob],
            !.orphans = IF r \in Stored(S)
                        THEN @ (+) SetToBag({Job(r, S.jobs[r].tid, S.jobs[r].fireAt)})
                        ELSE @]

\* triggerReminder that notifies without storing triggered = 1.
triggerReminder_NoMark(S, r, t) ==
  IF TaskMissing(t) \/ TaskCompleted(t)
  THEN [S EXCEPT !.rem = markTriggered(S.rem, r)]
  ELSE mapDelete([S EXCEPT !.shown = @ \cup {r}], r)

\* triggerReminder without the task.completed test.
triggerReminder_IgnoresCompleted(S, r, t) ==
  IF TaskMissing(t)
  THEN [S EXCEPT !.rem = markTriggered(S.rem, r)]
  ELSE mapDelete([S EXCEPT !.shown = @ \cup {r}, !.rem = markTriggered(S.rem, r)], r)

\* triggerReminder without the !task test.
triggerReminder_IgnoresMissing(S, r, t) ==
  IF TaskCompleted(t)
  THEN [S EXCEPT !.rem = markTriggered(S.rem, r)]
  ELSE mapDelete([S EXCEPT !.shown = @ \cup {r}, !.rem = markTriggered(S.rem, r)], r)

\* triggerReminder(reminder): reminder is the object captured by the caller
\* (id r, taskId t). The stored reminder row is not read.
triggerReminder(S, r, t) ==
  IF TaskMissing(t)
  THEN [S EXCEPT !.rem = markTriggered(S.rem, r)]
  ELSE IF TaskCompleted(t)
  THEN [S EXCEPT !.rem = markTriggered(S.rem, r)]
  ELSE LET S1 == [S EXCEPT !.shown = IF NotificationSupported THEN @ \cup {r} ELSE @,
                           !.rem = markTriggered(S.rem, r)]
       IN mapDelete(S1, r)

\* job.cancel() on the job stored for r: the timer stops, the Map entry stays.
cancelJob(S, r) ==
  IF S.jobs[r].st = "none" THEN S
  ELSE [S EXCEPT !.jobs = [@ EXCEPT ![r] = DeadJob]]

\* scheduleReminder that registers a job whatever the reminderTime.
scheduleReminder_AlwaysRegisters(S, r, t, rt) ==
  LET S1 == cancelJob(S, r)
  IN IF TotalLive(S1) >= NumTimers
     THEN [S1 EXCEPT !.full = TRUE]
     ELSE [S1 EXCEPT !.jobs = [@ EXCEPT ![r] = LiveJob(t, rt)]]

\* scheduleReminder(reminder) with reminder = (id r, taskId t, reminderTime rt)
scheduleReminder(S, r, t, rt) ==
  LET S1 == cancelJob(S, r)
  IN IF rt <= now
     THEN triggerReminder(S1, r, t)
     ELSE IF TotalLive(S1) >= NumTimers
     THEN [S1 EXCEPT !.full = TRUE]
     ELSE [S1 EXCEPT !.jobs = [@ EXCEPT ![r] = LiveJob(t, rt)]]

\* cancelReminder that empties the whole table.
cancelReminder_ClearsAll(S, r) ==
  IF S.jobs[r].st = "none" THEN S
  ELSE [S EXCEPT !.jobs = [q \in ReminderIds |-> NoJob]]

\* cancelReminder(reminderId)
cancelReminder(S, r) ==
  IF S.jobs[r].st = "none" THEN S
  ELSE [cancelJob(S, r) EXCEPT !.jobs = [@ EXCEPT ![r] = NoJob]]

RECURSIVE forEachTrigger(_, _, _)
forEachTrigger(S, rows, ids) ==
  IF ids = <<>> THEN S
  ELSE forEachTrigger(triggerReminder(S, Head(ids), rows[Head(ids)].taskId), rows, Tail(ids))

RECURSIVE forEachSchedule(_, _, _)
forEachSchedule(S, rows, ids) ==
  IF ids = <<>> THEN S
  ELSE forEachSchedule(scheduleReminder(S, Head(ids), rows[Head(ids)].taskId, rows[Head(ids)].reminderTime),
                       rows, Tail(ids))

\* checkDueReminders()
checkDueReminders(S) == forEachTrigger(S, S.rem, OrderByTime(S.rem, getDue(S.rem)))

\* scheduleAllPendingReminders(): cancel and forget every job of the table,
\* then schedule what getPending returns.
scheduleAllPendingReminders(S) ==
  LET S0 == [S EXCEPT !.jobs = [r \in ReminderIds |-> NoJob]]
  IN forEachSchedule(S0, S0.rem, OrderByTime(S0.rem, getPending(S0.rem)))

\* ------------------------------------------------- calendar (JS Date)
\* A calendar date is the number of days since 2024-01-01, a Monday. An
\* instant is a number of clock units since 2024-01-01T00:00Z, UnitsPerDay
\* units to the day. The host's time zone is an offset in units, local time
\* being UTC + offset.
EpochYear == 2024
UnitsPerDay == 2
TimeZones == {-1, 0, 1}
\* Due dates handed to the calculator: the week that ends on LastDue
\* (2024-01-26 .. 2024-02-01 for 31), and the days the clock may show.
LastDue == 31
MaxInterval == 2
MaxWeekdays == 2
DueDates == (LastDue - 6)..LastDue
Instants == {d * UnitsPerDay + u : d \in (LastDue - 1)..LastDue, u \in 0..(UnitsPerDay - 1)}
Years == (EpochYear - MaxInterval)..(EpochYear + MaxInterval + 1)

\* An absent property of a JS object.
Undefined == "undefined"

IsLeap(y) == (y % 4 = 0 /\ y % 100 # 0) \/ y % 400 = 0

\* Months are 0..11 as in Date.
DaysInMonth(y, m) ==
  IF m = 1 THEN (IF IsLeap(y) THEN 29 ELSE 28)
  ELSE IF m \in {3, 5, 8, 10} THEN 30 ELSE 31

DaysInYear(y) == IF IsLeap(y) THEN 366 ELSE 365

RECURSIVE DaysBeforeYear(_)
DaysBeforeYear(y) ==
  IF y = EpochYear THEN 0
  ELSE IF y > EpochYear THEN DaysBeforeYear(y - 1) + DaysInYear(y - 1)
  ELSE DaysBeforeYear(y + 1) - DaysInYear(y)

RECURSIVE DaysBeforeMonth(_, _)
DaysBeforeMonth(y, m) == IF m = 0 THEN 0 ELSE DaysBeforeMonth(y, m - 1) + DaysInMonth(y, m - 1)

\* The date of year y, month m, day-of-month d, where m may exceed 11 and d
\* may exceed the month's length: Date carries the excess into the next
\* year or month.
DayNum(y, m, d) ==
  LET yy == y + (m \div 12)
      mm == m % 12
  IN DaysBeforeYear(yy) + DaysBeforeMonth(yy, mm) + (d - 1)

getFullYear(day) ==
  CHOOSE y \in Years : DaysBeforeYear(y) <= day /\ day < DaysBeforeYear(y + 1)

getMonth(day) ==
  LET y == getFullYear(day)
  IN CHOOSE m \in 0..11 : DayNum(y, m, 1) <= day /\ day < DayNum(y, m + 1, 1)

getDate(day) == day - DayNum(getFullYear(day), getMonth(day), 1) + 1

\* 0 = Sunday .. 6 = Saturday; day 0 is a Monday.
getDay(day) == (day + 1) % 7

setDate(day, d) == DayNum(getFullYear(day), getMonth(day), d)

setMonth(day, m) == DayNum(getFullYear(day), m, getDate(day))

setFullYear(day, y) == DayNum(y, getMonth(day), getDate(day))

\* new Date('YYYY-MM-DD'): a date-only string is midnight UTC of that date.
parseDate(date) == date * UnitsPerDay

\* The local calendar date of an instant in time zone tz.
localDate(instant, tz) == (instant + tz) \div UnitsPerDay

\* setHours(0, 0, 0, 0): local midnight of the local date.
setHours0(instant, tz) == localDate(instant, tz) * UnitsPerDay - tz

\* The instant at local midnight of a local date.
localMidnight(day, tz) == day * UnitsPerDay - tz

\* toISOString().split('T')[0]: the UTC calendar date of an instant.
toISODate(instant) == instant \div UnitsPerDay

\* ------------------------------------------------- recurrence calculator
RECURSIVE sortAsc(_)
\* [...weekdays].sort((a, b) => a - b)
sortAsc(s) ==
  IF s = <<>> THEN <<>>
  ELSE LET m == CHOOSE x \in {s[i] : i \in 1..Len(s)} : \A i \in 1..Len(s) : x <= s[i]
           k == CHOOSE i \in 1..Len(s) : s[i] = m /\ \A j \in 1..(i - 1) : s[j] # m
       IN <<m>> \o sortAsc(SubSeq(s, 1, k - 1) \o SubSeq(s, k + 1, Len(s)))

\* sortedWeekdays.find(wd => wd > currentWeekday), Null for undefined.
findLater(sorted, currentWeekday) ==
  LET later == {i \in 1..Len(sorted) : sorted[i] > currentWeekday}
  IN IF later = {} THEN Null
     ELSE sorted[CHOOSE i \in later : \A j \in later : i <= j]

\* findNextWeekday that reads the list in the order given.
findNextWeekday_Unsorted(baseDate, weekdays, weeksInterval) ==
  LET currentWeekday == getDay(baseDate)
      nextInWeek == findLater(weekdays, currentWeekday)
      rest == (7 - currentWeekday + weekdays[1]) % 7
      daysToFirstWeekday == IF rest = 0 THEN 7 ELSE rest
  IN IF nextInWeek # Null /\ weeksInterval = 1
     THEN setDate(baseDate, getDate(baseDate) + (nextInWeek - currentWeekday))
     ELSE setDate(baseDate, getDate(baseDate) + daysToFirstWeekday + (weeksInterval - 1) * 7)

\* findNextWeekday on the local date of baseDate; the result is a local date.
findNextWeekday(baseDate, weekdays, weeksInterval) ==
  LET sortedWeekdays == sortAsc(weekdays)
      currentWeekday == getDay(baseDate)
      nextInWeek == findLater(sortedWeekdays, currentWeekday)
      firstWeekday == sortedWeekdays[1]
      rest == (7 - currentWeekday + firstWeekday) % 7
      daysToFirstWeekday == IF rest = 0 THEN 7 ELSE rest
  IN IF nextInWeek # Null /\ weeksInterval = 1
     THEN setDate(baseDate, getDate(baseDate) + (nextInWeek - currentWeekday))
     ELSE setDate(baseDate, getDate(baseDate) + daysToFirstWeekday + (weeksInterval - 1) * 7)

\* calculateNextDueDate; clock is what new Date() returns and tz the host's
\* time zone. Dates in and out are date strings (UTC calendar dates).
calculateNextDueDate(currentDueDate, pattern, interval, weekdays, regenerateMode, clock, tz) ==
  IF pattern = "none" \/ currentDueDate = Null THEN Null
  ELSE LET start == IF regenerateMode = "fixed_schedule" THEN parseDate(currentDueDate) ELSE clock
           baseDate == localDate(setHours0(start, tz), tz)
           nextDate ==
             CASE pattern = "daily" -> setDate(baseDate, getDate(baseDate) + interval)
               [] pattern = "weekly" ->
                    IF Len(weekdays) > 0
                    THEN findNextWeekday(baseDate, weekdays, interval)
                    ELSE setDate(baseDate, getDate(baseDate) + 7 * interval)
               [] pattern = "monthly" -> setMonth(baseDate, getMonth(baseDate) + interval)
               [] pattern = "yearly" -> setFullYear(baseDate, getFullYear(baseDate) + interval)
               [] pattern = "custom" -> setDate(baseDate, getDate(baseDate) + interval)
               [] OTHER -> Null
       IN IF nextDate = Null THEN Null ELSE toISODate(localMidnight(nextDate, tz))

\* ------------------------------------------------------- task rows, tags
\* uuid pools of the completion workflow: task rows 1..NumRows, tags 1..NumTags.
NumRows == 3
NumTags == 2
RowIds == 1..NumRows
TagIds == 1..NumTags

NoCalc == [st |-> "idle"]
NoReturn == [st |-> "none"]

\* The recurrence properties of a Task or of a CreateTaskDTO.
Config(pattern, interval, weekdays, endDate, mode) ==
  [recurrencePattern |-> pattern, recurrenceInterval |-> interval,
   recurrenceWeekdays |-> weekdays, recurrenceEndDate |-> endDate,
   regenerateMode |-> mode]

\* None of them given.
NoConfig == Config(Undefined, Null, <<>>, Null, Undefined)

\* The column defaults of the tasks table.
DefaultColumns == Config("none", 1, <<>>, Null, "on_completion")

\* list ids are 1..NumLists and titles 1..NumTitles; description, notes,
\* dueTime and priority travel with the title through every statement.
NumLists == 1
NumTitles == 2
ListIds == 1..NumLists
Titles == 1..NumTitles

NoTask ==
  [st |-> "absent", listId |-> Null, title |-> 0, position |-> 0, completed |-> FALSE,
   completedAt |-> Null, dueDate |-> Null, columns |-> DefaultColumns]

\* --------------------------------------------------------------- actions
Op(op, id) == [op |-> op, id |-> id]

\* The handler returns: what it left becomes the state.
Commit(S, op) ==
  \E X \in {S} :
    /\ ~X.full
    /\ rem' = X.rem
    /\ jobs' = X.jobs
    /\ orphans' = X.orphans
    /\ shown' = X.shown
    /\ lastOp' = op

NoRace == UNCHANGED race

\* The reminder operations leave the recurrence calculator and the
\* completion workflow's tables alone.
NoRecurrence == UNCHANGED <<calc, taskRows, taskTags, asked, ret>>

\* No task row, no tag, no completion yet.
StoreIdle ==
  /\ taskRows = [t \in RowIds |-> NoTask]
  /\ taskTags = {}
  /\ asked = [t \in RowIds |-> NoConfig]
  /\ ret = NoReturn

\* Nor a calculator call.
RecurrenceInit == calc = NoCalc /\ StoreIdle

\* No task, no reminder, no job.
NoReminders ==
  /\ now = 0
  /\ tasks = [t \in TaskIds |-> "absent"]
  /\ rem = [r \in ReminderIds |-> NoRow("absent")]
  /\ jobs = [r \in ReminderIds |-> NoJob]
  /\ orphans = EmptyBag
  /\ shown = {}
  /\ race = [r \in ReminderIds |-> [notes |-> 0, timerRan |-> FALSE, sweepRan |-> FALSE]]

Init ==
  /\ RecurrenceInit
  /\ NoReminders
  /\ lastOp = Op("init", 0)

\* The clock advances.
Tick ==
  /\ now < MaxTime
  /\ now' = now + 1
  /\ Commit(Cur, Op("tick", 0))
  /\ UNCHANGED tasks

\* TASK_CREATE -> taskService.create
TaskCreate ==
  /\ \E t \in TaskIds : tasks[t] = "absent"
  /\ tasks' = [tasks EXCEPT ![FreshTask] = "open"]
  /\ Commit(Cur, Op("taskCreate", FreshTask))
  /\ UNCHANGED now

\* TASK_UPDATE -> taskService.update(id, {completed})
TaskUpdate(t, completed) ==
  /\ ~TaskMissing(t)
  /\ tasks' = [tasks EXCEPT ![t] = IF completed THEN "done" ELSE "open"]
  /\ Commit(Cur, Op("taskUpdate", t))
  /\ UNCHANGED now

\* TASK_DELETE -> taskService.delete: DELETE FROM tasks, and the reminders
\* of the task go with it (FOREIGN KEY ... ON DELETE CASCADE, foreign_keys = ON).
taskDelete(S, t) ==
  [S EXCEPT !.rem = [r \in ReminderIds |->
                       IF Exists(S.rem, r) /\ S.rem[r].taskId = t THEN Gone(S.rem[r]) ELSE S.rem[r]]]

TaskDelete(t) ==
  /\ ~TaskMissing(t)
  /\ tasks' = [tasks EXCEPT ![t] = "deleted"]
  /\ Commit(taskDelete(Cur, t), Op("taskDelete", t))
  /\ UNCHANGED now

\* REMINDER_CREATE -> addAndScheduleReminder(taskId, reminderTime); the
\* INSERT of a reminder for a task id without a row violates the foreign key.
addAndScheduleReminder(S, t, rt) ==
  LET r == FreshReminder(S.rem)
  IN scheduleReminder([S EXCEPT !.rem = [@ EXCEPT ![r] = NewRow(t, rt)]], r, t, rt)

AddAndScheduleReminder(t, rt) ==
  /\ ~TaskMissing(t)
  /\ \E r \in ReminderIds : rem[r].st = "absent"
  /\ Commit(addAndScheduleReminder(Cur, t, rt), Op("add", FreshReminder(rem)))
  /\ UNCHANGED <<now, tasks>>

\* REMINDER_SNOOZE -> snoozeReminder(reminderId, durationMinutes)
snoozeReminder(S, r, m) ==
  LET S1 == [S EXCEPT !.rem = snooze(S.rem, r, m)]
  IN IF Exists(S1.rem, r)
     THEN scheduleReminder(S1, r, S1.rem[r].taskId, S1.rem[r].reminderTime)
     ELSE S1

SnoozeReminder(r, m) ==
  /\ now + m <= MaxTime
  /\ Commit(snoozeReminder(Cur, r, m), Op("snooze", r))
  /\ UNCHANGED <<now, tasks>>

\* REMINDER_DELETE -> deleteReminder(reminderId)
deleteReminder(S, r) ==
  LET S1 == cancelReminder(S, r)
  IN [S1 EXCEPT !.rem = IF Exists(S1.rem, r) THEN [@ EXCEPT ![r] = Gone(@)] ELSE @]

\* What snoozeReminder returns: the reminder reminderService.snooze read
\* back (its id here), or Null when there is no such row.
snoozeReminderReturn(S, r, m) == IF Exists(snooze(S.rem, r, m), r) THEN r ELSE Null

\* What deleteReminder returns: result.changes > 0 of the DELETE.
deleteReminderReturn(S, r) == Exists(cancelReminder(S, r).rem, r)

DeleteReminder(r) ==
  /\ Commit(deleteReminder(Cur, r), Op("delete", r))
  /\ UNCHANGED <<now, tasks>>

\* REMINDER_UPDATE -> reminderService.update(id, data); the job table is not involved.
UpdateData == [reminderTime : Times]

ReminderUpdate(r, data) ==
  /\ Exists(rem, r)
  /\ Commit([Cur EXCEPT !.rem = update(rem, r, data)], Op("update", r))
  /\ UNCHANGED <<now, tasks>>

\* The job stored for r reaches its date: it is live no more, and its
\* callback runs triggerReminder(reminder) with the reminder captured at
\* registration.
timerFire(S, r) ==
  triggerReminder([S EXCEPT !.jobs = [@ EXCEPT ![r] = DeadJob]], r, S.jobs[r].tid)

TimerFire(r) ==
  /\ jobs[r].st = "live"
  /\ jobs[r].fireAt <= now
  /\ Commit(timerFire(Cur, r), Op("timer", r))
  /\ UNCHANGED <<now, tasks>>

\* The same for a live job the table no longer holds.
orphanFire(S, j) ==
  triggerReminder([S EXCEPT !.orphans = @ (-) SetToBag({j})], j.rid, j.tid)

OrphanFire(j) ==
  /\ BagIn(j, orphans)
  /\ j.fireAt <= now
  /\ Commit(orphanFire(Cur, j), Op("timer", j.rid))
  /\ UNCHANGED <<now, tasks>>

\* setInterval(checkDueReminders, 60000)
CheckDueReminders ==
  /\ Commit(checkDueReminders(Cur), Op("sweep", 0))
  /\ UNCHANGED <<now, tasks>>

\* scheduleAllPendingReminders() called on the running process
ScheduleAllPendingReminders ==
  /\ Commit(scheduleAllPendingReminders(Cur), Op("scheduleAll", 0))
  /\ UNCHANGED <<now, tasks>>

\* The process is restarted: the job table and its timers are gone, and
\* initReminderManager rebuilds them with scheduleAllPendingReminders.
initReminderManager ==
  scheduleAllPendingReminders([Cur EXCEPT !.orphans = EmptyBag, !.jobs = [r \in ReminderIds |-> NoJob]])

InitReminderManager ==
  /\ Commit(initReminderManager, Op("restart", 0))
  /\ UNCHANGED <<now, tasks>>

Step ==
  \/ Tick
  \/ TaskCreate
  \/ \E t \in TaskIds, c \in BOOLEAN : TaskUpdate(t, c)
  \/ \E t \in TaskIds : TaskDelete(t)
  \/ \E t \in TaskIds, rt \in Times : AddAndScheduleReminder(t, rt)
  \/ \E r \in ReminderIds, m \in 1..MaxSnooze : SnoozeReminder(r, m)
  \/ \E r \in ReminderIds : DeleteReminder(r)
  \/ \E r \in ReminderIds, d \in UpdateData : ReminderUpdate(r, d)
  \/ \E r \in ReminderIds : TimerFire(r)
  \/ \E j \in BagToSet(orphans) : OrphanFire(j)
  \/ CheckDueReminders
  \/ ScheduleAllPendingReminders
  \/ InitReminderManager

Next == Step /\ NoRace /\ NoRecurrence

Spec == Init /\ [][Next]_vars

\* cancelReminder(reminderId) is exported by the reminder manager: a caller
\* other than deleteReminder may run it on its own.
CancelReminder(r) ==
  /\ Commit(cancelReminder(Cur, r), Op("cancel", r))
  /\ UNCHANGED <<now, tasks>>

ExportStep ==
  \/ Step
  \/ \E r \in ReminderIds : CancelReminder(r)

ExportNext == ExportStep /\ NoRace /\ NoRecurrence

ExportSpec == Init /\ [][ExportNext]_vars

\* ------------------------------------------------- the timer/sweep race
\* Reminders created at instant 0 for open tasks with a later reminderTime:
\* each has its job in the table. From there only the clock, the timers and
\* the sweep run, and race counts what each reminder gets: the
\* notifications shown, whether its timer has fired, and whether a sweep
\* tick has run at or after its reminderTime.
RaceInit ==
  /\ RecurrenceInit
  /\ now = 0
  /\ tasks = [t \in TaskIds |-> "open"]
  /\ \E own \in [ReminderIds -> TaskIds], rts \in [ReminderIds -> 1..MaxTime] :
        /\ rem = [r \in ReminderIds |-> NewRow(own[r], rts[r])]
        /\ jobs = [r \in ReminderIds |-> LiveJob(own[r], rts[r])]
  /\ orphans = EmptyBag
  /\ lastOp = Op("add", NumReminders)
  /\ shown = {}
  /\ race = [r \in ReminderIds |-> [notes |-> 0, timerRan |-> FALSE, sweepRan |-> FALSE]]

Noted(r) == [race[r] EXCEPT !.notes = IF r \in shown' THEN @ + 1 ELSE @]

RaceTick == Tick /\ NoRace /\ NoRecurrence

RaceTimer(r) ==
  /\ TimerFire(r)
  /\ NoRecurrence
  /\ race' = [race EXCEPT ![r] = [Noted(r) EXCEPT !.timerRan = TRUE]]

RaceOrphan(j) ==
  /\ OrphanFire(j)
  /\ NoRecurrence
  /\ race' = [race EXCEPT ![j.rid] = [Noted(j.rid) EXCEPT !.timerRan = TRUE]]

RaceSweep ==
  /\ CheckDueReminders
  /\ NoRecurrence
  /\ race' = [r \in ReminderIds |-> [Noted(r) EXCEPT !.sweepRan = @ \/ rem[r].reminderTime <= now]]

RaceNext ==
  \/ RaceTick
  \/ \E r \in ReminderIds : RaceTimer(r)
  \/ \E j \in BagToSet(orphans) : RaceOrphan(j)
  \/ RaceSweep

RaceSpec == RaceInit /\ [][RaceNext]_vars

\* ------------------------------------------------------------- liveness
\* Reminders are created and snoozed, the process restarts and loses its job
\* table, jobs fire or not; setInterval(checkDueReminders, 60000) keeps the
\* sweep running, and time passes. Tasks stay open and no reminder is
\* deleted or edited.
LiveStep ==
  \/ Tick
  \/ TaskCreate
  \/ \E t \in TaskIds, rt \in Times : AddAndScheduleReminder(t, rt)
  \/ \E r \in ReminderIds, m \in 1..MaxSnooze : SnoozeReminder(r, m)
  \/ \E r \in ReminderIds : TimerFire(r)
  \/ \E j \in BagToSet(orphans) : OrphanFire(j)
  \/ CheckDueReminders
  \/ InitReminderManager

LiveNext == LiveStep /\ NoRace /\ NoRecurrence

LiveSpec ==
  /\ Init
  /\ [][LiveNext]_vars
  /\ WF_vars(Tick /\ NoRace /\ NoRecurrence)
  /\ WF_vars(CheckDueReminders /\ NoRace /\ NoRecurrence)

\* ------------------------------------------------ calculator under test
\* One call of calculateNextDueDate, or of findNextWeekday, on arguments
\* drawn from the bounded sets; the host's clock and time zone are drawn
\* with them.
Patterns == {"none", "daily", "weekly", "monthly", "yearly", "custom"}
Modes == {"on_completion", "fixed_schedule"}
Weekdays == 0..6
WeekdayLists == UNION {[1..n -> Weekdays] : n \in 0..MaxWeekdays}
\* interval is a number: the type admits zero and negative ones.
Intervals == (1 - MaxInterval)..MaxInterval

CalcInit ==
  /\ NoReminders
  /\ StoreIdle
  /\ lastOp = Op("init", 0)
  /\ \E d \in DueDates \cup {Null}, p \in Patterns, k \in Intervals,
        m \in Modes, c \in Instants, z \in TimeZones :
       \E w \in (IF p = "weekly" THEN WeekdayLists ELSE {<<>>}) :
         calc = [st |-> "args", currentDueDate |-> d, pattern |-> p, interval |-> k,
                 weekdays |-> w, regenerateMode |-> m, clock |-> c, tz |-> z,
                 result |-> Null]

NoReminderStep == UNCHANGED <<now, tasks, rem, jobs, orphans, shown, race>>

NoStoreStep == UNCHANGED <<taskRows, taskTags, asked, ret>>

CalculateNextDueDate ==
  /\ calc.st = "args"
  /\ calc' = [calc EXCEPT !.st = "calculated",
                          !.result = calculateNextDueDate(calc.currentDueDate, calc.pattern,
                                       calc.interval, calc.weekdays, calc.regenerateMode,
                                       calc.clock, calc.tz)]
  /\ lastOp' = Op("calculate", 0)
  /\ NoReminderStep
  /\ NoStoreStep

\* findNextWeekday called as the weekly case calls it, baseDate being the
\* local date currentDueDate.
FindNextWeekday ==
  /\ calc.st = "args"
  /\ calc.pattern = "weekly"
  /\ Len(calc.weekdays) > 0
  /\ calc.currentDueDate # Null
  /\ calc' = [calc EXCEPT !.st = "found",
                          !.result = findNextWeekday(calc.currentDueDate, calc.weekdays, calc.interval)]
  /\ lastOp' = Op("findNextWeekday", 0)
  /\ NoReminderStep
  /\ NoStoreStep

CalcNext == CalculateNextDueDate \/ FindNextWeekday

CalcSpec == CalcInit /\ [][CalcNext]_vars

\* --------------------------------------------------- completing a task
\* The tasks and task_tags tables and the completion workflow
\* (recurrenceService.completeRecurringTask over taskService). A statement
\* of better-sqlite3 either runs or throws (disk full, I/O error, locked
\* database); fail names the statement of the call that throws, if any.
Fails == {"none", "update", "insert", "copy"}

\* The state a workflow call works on.
Store == [rows |-> taskRows, tags |-> taskTags, asked |-> asked, ret |-> NoReturn, full |-> FALSE]

RowExists(S, t) == S.rows[t].st = "row"

RowCount(rws) == Cardinality({t \in RowIds : rws[t].st = "row"})

TagsOf(tgs, t) == {g \in TagIds : <<t, g>> \in tgs}

FreshRow(S) ==
  CHOOSE t \in RowIds : S.rows[t].st = "absent" /\ \A q \in RowIds : S.rows[q].st = "absent" => t <= q

\* rowToTask copies id, list, title, description, notes, due date and time,
\* priority, completion, position and timestamps; the recurrence columns are
\* not copied, so the Task has none of the recurrence properties (an absent
\* number or date reads as Null here, an absent list as the empty list).
rowToTask(S, t) ==
  [id |-> t, listId |-> S.rows[t].listId, title |-> S.rows[t].title,
   position |-> S.rows[t].position,
   dueDate |-> S.rows[t].dueDate, completed |-> S.rows[t].completed,
   completedAt |-> S.rows[t].completedAt,
   recurrencePattern |-> Undefined, recurrenceInterval |-> Null,
   recurrenceWeekdays |-> <<>>, recurrenceEndDate |-> Null,
   regenerateMode |-> Undefined]

\* SELECT COALESCE(MAX(position), -1) FROM tasks WHERE list_id IS ?
maxPos(S, listId) ==
  LET ps == {S.rows[t].position : t \in {u \in RowIds : RowExists(S, u) /\ S.rows[u].listId = listId}}
  IN IF ps = {} THEN -1 ELSE CHOOSE x \in ps : \A y \in ps : y <= x

\* taskService.create(data): the row goes to the end of its list; the INSERT
\* names no recurrence column, so the row gets their defaults; asked keeps
\* what data carried.
create(S, data) ==
  IF \A t \in RowIds : RowExists(S, t)
  THEN [S EXCEPT !.full = TRUE]
  ELSE LET id == FreshRow(S)
       IN [S EXCEPT !.rows[id] = [st |-> "row", listId |-> data.listId, title |-> data.title,
                                  position |-> maxPos(S, data.listId) + 1,
                                  completed |-> FALSE, completedAt |-> Null,
                                  dueDate |-> data.dueDate, columns |-> DefaultColumns],
                    !.asked[id] = data.config]

\* taskService.update that leaves completed_at alone when a task is reopened.
updateTaskRow_KeepsStamp(row, data) ==
  [row EXCEPT !.dueDate = IF "dueDate" \in DOMAIN data THEN data.dueDate ELSE @,
              !.completed = IF "completed" \in DOMAIN data THEN data.completed ELSE @,
              !.completedAt = IF "completed" \in DOMAIN data /\ data.completed THEN now ELSE @]

\* taskService.update(id, data): only the properties data has are written;
\* completed_at is written with completed, the time of the call or NULL. An
\* UPDATE of a missing id changes no row.
updateTaskRow(row, data) ==
  [row EXCEPT !.dueDate = IF "dueDate" \in DOMAIN data THEN data.dueDate ELSE @,
              !.completed = IF "completed" \in DOMAIN data THEN data.completed ELSE @,
              !.completedAt = IF "completed" \in DOMAIN data
                              THEN (IF data.completed THEN now ELSE Null)
                              ELSE @]

updateTask(S, t, data) ==
  IF RowExists(S, t) THEN [S EXCEPT !.rows[t] = updateTaskRow(@, data)] ELSE S

\* taskService.update(id, {completed: true})
updateCompleted(S, t) == updateTask(S, t, [completed |-> TRUE])

Threw(S) == [S EXCEPT !.ret = [st |-> "threw", completedTask |-> Null, nextTask |-> Null]]

Returned(S, t, next) == [S EXCEPT !.ret = [st |-> "returned", completedTask |-> t, nextTask |-> next]]

\* INSERT INTO task_tags SELECT newTask.id, tag_id FROM task_tags WHERE task_id = completedTask.id
copyTags(S, from, to) == [S EXCEPT !.tags = @ \cup {<<to, g>> : g \in TagsOf(S.tags, from)}]

\* createNextRecurringTask that re-labels the rows of task_tags instead of copying them.
createNextRecurringTask_MovesTags(S, completedTask, clock, tz, fail) ==
  LET S1 == create(S, [listId |-> completedTask.listId, title |-> completedTask.title,
                       dueDate |-> Null, config |-> NoConfig])
      id == FreshRow(S)
  IN IF S1.full THEN S1
     ELSE Returned([S1 EXCEPT !.tags = {<<IF e[1] = completedTask.id THEN id ELSE e[1], e[2]>> : e \in @}],
                   completedTask.id, id)

\* createNextRecurringTask(completedTask)
createNextRecurringTask(S, completedTask, clock, tz, fail) ==
  IF completedTask.recurrencePattern = "none"
  THEN Returned(S, completedTask.id, Null)
  ELSE LET nextDueDate == calculateNextDueDate(completedTask.dueDate,
                            completedTask.recurrencePattern, completedTask.recurrenceInterval,
                            completedTask.recurrenceWeekdays, completedTask.regenerateMode,
                            clock, tz)
       IN IF /\ completedTask.recurrenceEndDate # Null
             /\ nextDueDate # Null
             /\ nextDueDate > completedTask.recurrenceEndDate
          THEN Returned(S, completedTask.id, Null)
          ELSE IF fail = "insert" THEN Threw(S)
          ELSE LET S1 == create(S, [listId |-> completedTask.listId,
                                    title |-> completedTask.title,
                                    dueDate |-> nextDueDate,
                                    config |-> Config(completedTask.recurrencePattern,
                                                 completedTask.recurrenceInterval,
                                                 completedTask.recurrenceWeekdays,
                                                 completedTask.recurrenceEndDate,
                                                 completedTask.regenerateMode)])
                   id == FreshRow(S)
               IN IF S1.full THEN S1
                  ELSE IF fail = "copy" THEN Threw(S1)
                  ELSE Returned(copyTags(S1, completedTask.id, id), completedTask.id, id)

\* completeRecurringTask(taskId)
completeRecurringTask(S, taskId, clock, tz, fail) ==
  IF ~RowExists(S, taskId)
  THEN [S EXCEPT !.ret = [st |-> "null", completedTask |-> Null, nextTask |-> Null]]
  ELSE LET task == rowToTask(S, taskId)
       IN IF fail = "update" THEN Threw(S)
          ELSE LET S1 == updateCompleted(S, taskId)
                   completedTask == rowToTask(S1, taskId)
               IN IF task.recurrencePattern # "none"
                  THEN createNextRecurringTask(S1, completedTask, clock, tz, fail)
                  ELSE Returned(S1, taskId, Null)

\* What the store holds when the call is over.
CommitStore(S, op) ==
  \E X \in {S} :
    /\ ~X.full
    /\ taskRows' = X.rows
    /\ taskTags' = X.tags
    /\ asked' = X.asked
    /\ ret' = X.ret
    /\ lastOp' = op

\* Recurrence configurations a caller gives a new task: none given, a plain
\* task, a daily series without end, and a daily series on a fixed schedule
\* whose end date is the day before its first due date.
AskedConfigs ==
  {NoConfig,
   Config("none", 1, <<>>, Null, "on_completion"),
   Config("daily", 1, <<>>, Null, "on_completion"),
   Config("daily", 1, <<>>, LastDue - 1, "fixed_schedule")}

\* A task of no list carries the first title, a task of a list another one.
CreateTaskDTOs ==
  {[listId |-> l, title |-> IF l = Null THEN 1 ELSE NumTitles, dueDate |-> d, config |-> c] :
     l \in {Null} \cup ListIds, d \in {Null, LastDue}, c \in AskedConfigs}

\* TASK_CREATE with a CreateTaskDTO
CreateTask(data) ==
  /\ \E t \in RowIds : ~RowExists(Store, t)
  /\ CommitStore(create(Store, data), Op("taskCreate", FreshRow(Store)))

\* What a caller of TASK_UPDATE changes: the completion or the due date.
UpdateTaskDTOs == {[completed |-> TRUE], [completed |-> FALSE], [dueDate |-> LastDue]}

\* TASK_UPDATE with an UpdateTaskDTO
UpdateTask(t, data) ==
  /\ RowExists(Store, t)
  /\ CommitStore(updateTask(Store, t, data), Op("taskUpdate", t))

\* tagService.addTagToTask: INSERT OR IGNORE
AddTagToTask(t, g) ==
  /\ RowExists(Store, t)
  /\ CommitStore([Store EXCEPT !.tags = @ \cup {<<t, g>>}], Op("addTag", t))

\* tagService.removeTagFromTask
RemoveTagFromTask(t, g) ==
  /\ <<t, g>> \in taskTags
  /\ CommitStore([Store EXCEPT !.tags = @ \ {<<t, g>>}], Op("removeTag", t))

\* TASK_COMPLETE_RECURRING
CompleteRecurringTask(t, fail) ==
  \E S \in {completeRecurringTask(Store, t, clock, tz, fail) : clock \in Instants, tz \in TimeZones} :
    CommitStore(S, Op("complete", t))

\* The tasks of no list.
InboxTaskDTOs == {data \in CreateTaskDTOs : data.listId = Null}

RecurStep ==
  \/ \E data \in InboxTaskDTOs : CreateTask(data)
  \/ \E t \in RowIds, data \in UpdateTaskDTOs : UpdateTask(t, data)
  \/ \E t \in RowIds, g \in TagIds : AddTagToTask(t, g)
  \/ \E t \in RowIds, g \in TagIds : RemoveTagFromTask(t, g)
  \/ \E t \in RowIds, fail \in Fails : CompleteRecurringTask(t, fail)

\* The workflow with tags, updates and failing statements, on tasks of no
\* list and on stores that leave one id of the pool unused.
RecurNext ==
  /\ RecurStep
  /\ RowCount(taskRows') < NumRows
  /\ NoReminderStep
  /\ UNCHANGED calc

RecurSpec == Init /\ [][RecurNext]_vars

\* A series on its own: tasks are created in a list or in none and
\* completed, no statement fails, and every id of the pool may be used.
SeriesStep ==
  \/ \E data \in CreateTaskDTOs : CreateTask(data)
  \/ \E t \in RowIds : CompleteRecurringTask(t, "none")

SeriesNext == SeriesStep /\ NoReminderStep /\ UNCHANGED calc

SeriesSpec == Init /\ [][SeriesNext]_vars

\* --------------------------------------------------------------- claims
\* The step is the operation op on id (lastOp names the operation of every step).
StepIs(op, id) == lastOp' = Op(op, id)

\* The task a reminder id was created for; jobs capture it with the reminder.
Owner(r) == rem[r].taskId

\* The step runs triggerReminder for reminder id r: from a fired job, from
\* the sweep, or from scheduleReminder on a reminder whose reminderTime has come.
Attempt(r) ==
  \/ StepIs("timer", r)
  \/ StepIs("sweep", 0) /\ r \in getDue(rem)
  \/ /\ StepIs("scheduleAll", 0) \/ StepIs("restart", 0)
     /\ r \in getPending(rem) /\ rem[r].reminderTime <= now
  \/ StepIs("snooze", r) /\ Exists(rem, r) /\ rem[r].reminderTime <= now
  \/ StepIs("add", r) /\ rem'[r].reminderTime <= now

\* The step calls scheduleReminder with the stored reminder of id r.
Called(r) ==
  \/ StepIs("add", r)
  \/ StepIs("snooze", r) /\ Exists(rem, r)
  \/ /\ StepIs("scheduleAll", 0) \/ StepIs("restart", 0)
     /\ r \in getPending(rem)

\* Live jobs of reminder id r.
NowLive(r) == LiveCount(Cur, r)

TaskOpen(t) == ~TaskMissing(t) /\ ~TaskCompleted(t)

\* A stored reminder waiting for delivery, its delivery, and what takes the
\* obligation away: the row is deleted, the task is completed or deleted, or
\* the reminder is snoozed or edited again.
Pending(r) == Exists(rem, r) /\ ~rem[r].triggered /\ TaskOpen(rem[r].taskId)

Delivered(r) == Exists(rem, r) /\ rem[r].triggered /\ r \in shown

Escaped(r) ==
  \/ ~Exists(rem, r)
  \/ ~TaskOpen(rem[r].taskId)
  \/ lastOp \in {Op("snooze", r), Op("update", r)}

C3_TriggeredSuppresses ==
  [][\A r \in ReminderIds :
       /\ (TimerFire(r) /\ Exists(rem, r) /\ rem[r].triggered) => r \notin shown'
       /\ \A j \in BagToSet(orphans) :
            (j.rid = r /\ OrphanFire(j) /\ Exists(rem, r) /\ rem[r].triggered) => r \notin shown']_vars

\* Every live job captured the task its reminder id was created for.
JobOwner ==
  /\ \A r \in ReminderIds : jobs[r].st = "live" => jobs[r].tid = Owner(r)
  /\ \A j \in BagToSet(orphans) : j.tid = Owner(j.rid)

\* C4: no reminder id ever has more than one live job.
C4_AtMostOneLiveJob == \A r \in ReminderIds : NowLive(r) <= 1

\* C5: a delivery attempt that finds the task missing or completed shows no
\* notification and leaves the reminder, if it is stored, triggered.
C5_StaleSuppressed ==
  [][\A r \in ReminderIds :
       (Attempt(r) /\ (TaskMissing(Owner(r)') \/ TaskCompleted(Owner(r)')))
         => (r \notin shown' /\ (Exists(rem', r) => rem'[r].triggered))]_vars

\* A job registered while the task was open fired after the task was completed.
C5_Witness ==
  \E r \in ReminderIds :
    /\ lastOp = Op("timer", r)
    /\ Exists(rem, r) /\ TaskCompleted(rem[r].taskId)
    /\ rem[r].triggered /\ r \notin shown

\* C6: no reminder row belongs to a deleted task, and no notification is
\* shown for a reminder of a deleted task.
C6_DeletedTaskSilent ==
  \A r \in ReminderIds :
    /\ Exists(rem, r) => tasks[rem[r].taskId] # "deleted"
    /\ (rem[r].st = "deleted" /\ tasks[rem[r].taskId] = "deleted") => r \notin shown

\* A job that was pending when the task was deleted has fired.
C6_Witness ==
  \E r \in ReminderIds :
    /\ lastOp = Op("timer", r)
    /\ rem[r].st = "deleted" /\ tasks[rem[r].taskId] = "deleted"

\* C7: right after a task is deleted, the job table has no entry and no live
\* job for any reminder of that task.
C7_DeleteCancelsJobs ==
  lastOp.op = "taskDelete" =>
    \A r \in ReminderIds :
      (rem[r].st = "deleted" /\ rem[r].taskId = lastOp.id) => (jobs[r].st = "none" /\ NowLive(r) = 0)

C9_SnoozeMovesReminder ==
  [][\A r \in ReminderIds, m \in 1..MaxSnooze :
       (SnoozeReminder(r, m) /\ Exists(rem, r))
         => /\ ~rem'[r].triggered
            /\ rem'[r].reminderTime = now + m
            /\ rem'[r].snoozedUntil = now + m]_vars

\* C10: no notification is shown for a snoozed reminder before its snoozedUntil.
C10_SnoozeDefers ==
  \A r \in shown : (Exists(rem, r) /\ rem[r].snoozedUntil # Null) => rem[r].snoozedUntil <= now

\* C11: when scheduleAllPendingReminders returns (called directly or from
\* initReminderManager), every stored reminder that was not triggered and
\* whose snoozedUntil was unset or not after now has its one job in the table
\* if its reminderTime is still to come and has been delivered (triggered
\* stored) otherwise, and the table holds a job for no other reminder.
C11_InitRebuildsJobs ==
  [][(StepIs("scheduleAll", 0) \/ StepIs("restart", 0)) =>
       \A r \in ReminderIds :
         IF /\ Exists(rem, r)
            /\ ~rem[r].triggered
            /\ (rem[r].snoozedUntil = Null \/ rem[r].snoozedUntil <= now)
         THEN IF rem[r].reminderTime > now
              THEN jobs'[r] = LiveJob(Owner(r), rem[r].reminderTime)
              ELSE rem'[r].triggered
         ELSE jobs'[r].st # "live"]_vars

\* The date the calculation starts from: the due date under fixed_schedule,
\* the host's current local date under on_completion.
Anchor ==
  IF calc.regenerateMode = "fixed_schedule"
  THEN calc.currentDueDate
  ELSE localDate(calc.clock, calc.tz)

Calculated == calc.st = "calculated" /\ calc.currentDueDate # Null

\* C12: for every pattern but none, every interval, weekday list, mode and
\* anchor date, the date calculateNextDueDate returns is strictly later than
\* the anchor.
C12_NextAfterAnchor ==
  (Calculated /\ calc.pattern # "none" /\ calc.interval >= 1) => (calc.result # Null /\ calc.result > Anchor)

WeekStart(day) == day - getDay(day)

Listed(list) == {list[i] : i \in 1..Len(list)}

FirstListed(list) == CHOOSE x \in Listed(list) : \A y \in Listed(list) : x <= y

\* C13: with weeksInterval > 1 findNextWeekday returns the first listed
\* weekday of the Sunday-based week that begins weeksInterval weeks after the
\* week of baseDate.
C13_MultiWeekCadence ==
  (calc.st = "found" /\ calc.interval > 1) =>
     calc.result = WeekStart(calc.currentDueDate) + 7 * calc.interval + FirstListed(calc.weekdays)

\* C14: with weeksInterval = 1 findNextWeekday returns the earliest date
\* after baseDate whose weekday is listed, whatever the order of the list.
C14_NearestListedWeekday ==
  (calc.st = "found" /\ calc.interval = 1) =>
     /\ calc.result > calc.currentDueDate
     /\ getDay(calc.result) \in Listed(calc.weekdays)
     /\ \A d \in (calc.currentDueDate + 1)..(calc.result - 1) : getDay(d) \notin Listed(calc.weekdays)

\* A list given out of order whose later entry is a later day of baseDate's week.
C14_Witness ==
  /\ calc.st = "found"
  /\ calc.interval = 1
  /\ Len(calc.weekdays) = 2
  /\ calc.weekdays[1] > calc.weekdays[2]
  /\ calc.weekdays[2] > getDay(calc.currentDueDate)
  /\ calc.result = calc.currentDueDate + (calc.weekdays[2] - getDay(calc.currentDueDate))

MonthIndex(day) == getFullYear(day) * 12 + getMonth(day)

\* C15: on a host whose time zone is UTC, the monthly pattern with interval k
\* returns a date of the calendar month k months after the anchor's month.
C15_MonthlyStaysInMonth ==
  (Calculated /\ calc.pattern = "monthly" /\ calc.tz = 0 /\ calc.interval >= 1) =>
     (calc.result # Null /\ MonthIndex(calc.result) = MonthIndex(Anchor) + calc.interval)

\* The step is a call of completeRecurringTask on the stored task t that
\* returned normally.
Completed(t) == StepIs("complete", t) /\ RowExists(Store, t) /\ ret'.st = "returned"

\* The task was created as a recurring one.
Recurring(t) == asked[t].recurrencePattern \notin {"none", Undefined}

\* The calculator returns null for the task as completeRecurringTask reads
\* it, whatever the clock and the time zone.
CalculatorNull(t) ==
  \A clock \in Instants, tz \in TimeZones :
    LET task == rowToTask(Store, t)
    IN calculateNextDueDate(task.dueDate, task.recurrencePattern, task.recurrenceInterval,
                            task.recurrenceWeekdays, task.regenerateMode, clock, tz) = Null

NoNewRow == RowCount(taskRows') = RowCount(taskRows)

\* C16: when the calculator returns null for a recurring task,
\* completeRecurringTask returns nextTask = null and the number of task rows
\* is unchanged.
C16_NullNextCreatesNothing ==
  [][\A t \in RowIds :
       (Completed(t) /\ Recurring(t) /\ CalculatorNull(t)) =>
          (ret'.nextTask = Null /\ NoNewRow)]_vars

\* The series of task t has an end date and the next date computed from the
\* configuration it was created with is later than it, whatever the clock
\* and the time zone.
PastEnd(t) ==
  /\ asked[t].recurrenceEndDate # Null
  /\ taskRows[t].dueDate # Null
  /\ Recurring(t)
  /\ \A clock \in Instants, tz \in TimeZones :
       calculateNextDueDate(taskRows[t].dueDate, asked[t].recurrencePattern,
                            asked[t].recurrenceInterval, asked[t].recurrenceWeekdays,
                            asked[t].regenerateMode, clock, tz) > asked[t].recurrenceEndDate

\* C17: when recurrenceEndDate is set and the computed next date is later
\* than it, completeRecurringTask returns nextTask = null and creates no
\* task row.
C17_EndDateStopsSeries ==
  [][\A t \in RowIds :
       (Completed(t) /\ PastEnd(t)) => (ret'.nextTask = Null /\ NoNewRow)]_vars

\* C18: completeRecurringTask on a task whose recurrencePattern is none
\* (stored as none, created without a pattern or with none) marks it
\* completed, returns nextTask = null and creates no task row and no tag
\* association.
C18_NoneNeverClones ==
  [][\A t \in RowIds :
       (/\ Completed(t)
        /\ taskRows[t].columns.recurrencePattern = "none"
        /\ ~Recurring(t)) =>
          /\ taskRows'[t].completed
          /\ ret'.nextTask = Null
          /\ NoNewRow
          /\ taskTags' = taskTags]_vars

\* C19: when completeRecurringTask returns a next task, its tags are the
\* tags of the completed task, which keeps its own.
C19_TagsCopied ==
  [][\A t \in RowIds :
       (Completed(t) /\ ret'.nextTask # Null) =>
          /\ TagsOf(taskTags', ret'.nextTask) = TagsOf(taskTags, t)
          /\ TagsOf(taskTags', t) = TagsOf(taskTags, t)]_vars

\* A completion that returned a next task, both tasks carrying every tag.
C19_Witness ==
  /\ lastOp.op = "complete"
  /\ ret.st = "returned"
  /\ ret.nextTask # Null
  /\ TagsOf(taskTags, ret.completedTask) = TagIds
  /\ TagsOf(taskTags, ret.nextTask) = TagIds

\* C20: a call of completeRecurringTask in which a statement fails leaves the
\* tasks and task_tags tables as they were before the call.
C20_CompletionAtomic ==
  [][\A t \in RowIds :
       (StepIs("complete", t) /\ ret'.st = "threw") =>
          (taskRows' = taskRows /\ taskTags' = taskTags)]_vars

\* C21: not-found is a no-op at every entry point: completeRecurringTask on
\* a missing task id returns null, snoozeReminder on a missing reminder id
\* returns null and registers no job, cancelReminder on an id with no job
\* does nothing, and deleteReminder on a missing id returns false; each
\* leaves the store and the job table unchanged.
C21_NotFoundIsNoOp ==
  [][/\ \A r \in ReminderIds :
          (StepIs("snooze", r) /\ ~Exists(rem, r)) =>
             /\ \A m \in 1..MaxSnooze : snoozeReminderReturn(Cur, r, m) = Null
             /\ UNCHANGED <<rem, jobs, orphans>>
     /\ \A r \in ReminderIds :
          (StepIs("cancel", r) /\ jobs[r].st = "none") => UNCHANGED <<rem, jobs, orphans>>
     /\ \A r \in ReminderIds :
          (StepIs("delete", r) /\ ~Exists(rem, r)) =>
             /\ ~deleteReminderReturn(Cur, r)
             /\ UNCHANGED <<rem, jobs, orphans>>
     /\ \A t \in RowIds :
          (StepIs("complete", t) /\ ~RowExists(Store, t)) =>
             /\ ret'.st = "null"
             /\ UNCHANGED <<taskRows, taskTags>>]_vars

\* C22: for every pattern but none, calculateNextDueDate returns null when
\* interval < 1 (zero or negative).
C22_InvalidIntervalNull ==
  (Calculated /\ calc.pattern # "none" /\ calc.interval < 1) => calc.result = Null

\* The next dates the calculator gives for task t under the configuration
\* it was created with, over the clocks and time zones of the host.
NextDates(t) ==
  {calculateNextDueDate(taskRows[t].dueDate, asked[t].recurrencePattern,
                        asked[t].recurrenceInterval, asked[t].recurrenceWeekdays,
                        asked[t].regenerateMode, clock, tz) : clock \in Instants, tz \in TimeZones}

\* C23: the next instance created by completeRecurringTask has the title
\* (and description, notes, dueTime, priority), the list and the recurrence
\* configuration of the completed task, has the computed next date as its
\* dueDate, is not completed, and has a position greater than that of every
\* other task of its list.
C23_NextInstanceIsCopy ==
  [][\A t \in RowIds :
       (Completed(t) /\ Recurring(t) /\ ret'.nextTask # Null) =>
          LET next == taskRows'[ret'.nextTask]
          IN /\ next.title = taskRows[t].title
             /\ next.listId = taskRows[t].listId
             /\ asked'[ret'.nextTask] = asked[t]
             /\ next.dueDate \in NextDates(t)
             /\ ~next.completed
             /\ \A u \in RowIds \ {ret'.nextTask} :
                  (taskRows'[u].st = "row" /\ taskRows'[u].listId = next.listId) =>
                     next.position > taskRows'[u].position]_vars

\* C24: for the daily and custom patterns and a non-null currentDueDate, the
\* result is currentDueDate + interval days under fixed_schedule, whatever
\* the completion date, and the completion date + interval days under
\* on_completion, whatever currentDueDate.
C24_BaseByMode ==
  (Calculated /\ calc.pattern \in {"daily", "custom"}) =>
     IF calc.regenerateMode = "fixed_schedule"
     THEN calc.result = calc.currentDueDate + calc.interval
     ELSE calc.result = localDate(calc.clock, calc.tz) + calc.interval

\* C25: cancelReminder(id) changes only the job table: the job stored for id
\* is stopped and its entry removed, the entries of the other reminder ids
\* are untouched, and the stored reminder rows are unchanged, so a reminder
\* that was due for the sweep is still due for it.
C25_CancelTouchesOnlyItsJob ==
  [][\A r \in ReminderIds :
       StepIs("cancel", r) =>
          /\ jobs'[r] = NoJob
          /\ orphans' = orphans
          /\ \A q \in ReminderIds \ {r} : jobs'[q] = jobs[q]
          /\ rem' = rem
          /\ shown' = {}
          /\ (r \in getDue(rem) <=> r \in getDue(rem'))]_vars

\* After cancelReminder: the reminder is stored, not triggered and due, its
\* entry is gone, and the other reminder still has its live job.
C25_Witness ==
  /\ lastOp.op = "cancel"
  /\ jobs[lastOp.id].st = "none"
  /\ lastOp.id \in getDue(rem)
  /\ \E q \in ReminderIds \ {lastOp.id} : jobs[q].st = "live"

\* C26: after every task update and every completeRecurringTask call, each
\* task has completedAt set exactly when it is completed;
\* completeRecurringTask leaves the instance it completed with both set and
\* with the dueDate it had.
C26_CompletedAtIffCompleted ==
  [][/\ \A t \in RowIds :
          taskRows'[t].st = "row" => (taskRows'[t].completedAt # Null <=> taskRows'[t].completed)
     /\ \A t \in RowIds :
          Completed(t) =>
             /\ taskRows'[t].completed
             /\ taskRows'[t].completedAt # Null
             /\ taskRows'[t].dueDate = taskRows[t].dueDate]_vars

\* A completion that returned a next task: the completed instance has
\* completedAt set and still the due date it was created with, the next
\* instance is open and has no completedAt.
C26_Witness ==
  /\ lastOp.op = "complete"
  /\ ret.st = "returned"
  /\ ret.nextTask # Null
  /\ taskRows[ret.completedTask].completed
  /\ taskRows[ret.completedTask].completedAt # Null
  /\ taskRows[ret.completedTask].dueDate = LastDue
  /\ ~taskRows[ret.nextTask].completed
  /\ taskRows[ret.nextTask].completedAt = Null

\* C27: completeRecurringTask called on a task that is already completed
\* creates no task row, so no instance gets a second successor.
C27_AtMostOneSuccessor ==
  [][\A t \in RowIds :
       (Completed(t) /\ taskRows[t].completed) => (ret'.nextTask = Null /\ NoNewRow)]_vars

\* C28: when deleteReminder(id) returns the row of id is gone and the job
\* table has no entry for id, and no notification is shown for a reminder id
\* whose row is gone (ids are never used again, so every later notification
\* for id comes after the deletion).
C28_DeletedStaysSilent ==
  [][\A r \in ReminderIds :
       /\ StepIs("delete", r) => (~Exists(rem', r) /\ jobs'[r] = NoJob)
       /\ rem[r].st = "deleted" => r \notin shown']_vars

\* C29: a notification for a stored reminder is never shown at an instant
\* earlier than the reminderTime stored for it, also when the stored
\* reminderTime was changed by the update operation while a timer for the
\* old time was pending.
C29_NeverEarly ==
  [][\A r \in ReminderIds :
       (r \in shown' /\ Exists(rem, r)) => rem[r].reminderTime <= now]_vars

\* C30: in every state between operations every entry of the job table
\* belongs to a reminder that is stored with triggered = false and holds a
\* live timer.
C30_JobsOnlyForPendingReminders ==
  \A r \in ReminderIds :
    jobs[r].st # "none" => (Exists(rem, r) /\ ~rem[r].triggered /\ jobs[r].st = "live")

====
